---- MODULE Spec2Model ----
(***************************************************************************)
(* A model of the WebDAV synchronization engine of filesync-rust           *)
(* (src/src/webdav.rs): run_sync and check_sync over a list of             *)
(* (local path, remote path) pairs, the per-pair decision of               *)
(* synchronize_file / synchronize_file_check, the transfer primitives and  *)
(* the remote metadata blob ".syncmetadata".                               *)
(*                                                                         *)
(* Pair i of the list has local path i and remote path i: the host keeps   *)
(* the pairs in a BiHashMap, so no two pairs share a local or a remote     *)
(* path.  Remote path 0 (OtherPath) is a path that is not in the list but  *)
(* may have an entry in the metadata blob.  The metadata blob and its      *)
(* temporary local copy are locations of their own (METADATA_FILENAME),    *)
(* distinct from every pair's paths.                                       *)
(*                                                                         *)
(* Every network call can fail.  A step of a run takes as its input the    *)
(* call that fails in it (Faults): every failure ends the processing of    *)
(* the pair, so one failing call per step covers all outcomes.             *)
(***************************************************************************)
EXTENDS Integers, Sequences, FiniteSets, TLC

\* ---------------------------------------------------------------- bounds
NumPairs == 2
MaxTime == 1
\* SpecTwo: the failing calls injected over two runs
MaxFaults == 1
\* SpecTwo: the runs made one after another
MaxRuns == 2
\* SpecUI: the error messages waiting to be closed
MaxErrors == 1

Pairs == 1..NumPairs
OtherPath == 0
MetaKeys == {OtherPath} \cup Pairs
Time == 0..MaxTime

\* HashMap::get(server_path) = None
NoEntry == -1

\* ------------------------------------------------------------- the state
VARIABLES
    pc,            \* position of the run: idle, pairs, done, panicked
    mode,          \* none, Mutate (run_sync), ReportOnly (check_sync)
    idx,           \* position of the for loop over pairs
    chanOpen,      \* the receiver of the mpsc channel is still there
    local,         \* local file of each pair: exists, mtime, content
    parent,        \* whether the parent directory of the local path exists
    remote,        \* remote object of each pair: exists, mtime, content
    blob,          \* the remote object METADATA_FILENAME
    syncmetadata,  \* Option<SyncMetadata> loaded at the start of the run
    clock,         \* the time stamped on what this run writes
    log,           \* messages delivered and calls made in this run, in order
    cls,           \* history: the Ordering / classification found per pair
    xfer,          \* history: the transfer attempted per pair and its result
    local0,        \* history: local at the start of the run
    remote0,       \* history: remote at the start of the run
    blob0,         \* history: blob at the start of the run
    budget,        \* how many more calls may fail
    runs,          \* runs started so far
    changed,       \* a file or object changed since the previous run ended
    prev,          \* history: summary of the previous run
    app,           \* the host's AppState (main.rs)
    db,            \* the persisted PAIRS_TABLE (db.rs)
    last           \* history: the message update handled last, AppState before it

\* the synchronization engine (webdav.rs)
engine == <<pc, mode, idx, chanOpen, local, parent, remote, blob, syncmetadata,
            clock, log, cls, xfer, local0, remote0, blob0, budget, runs, changed, prev>>

\* the host (main.rs, db.rs)
ui == <<app, db, last>>

vars == <<pc, mode, idx, chanOpen, local, parent, remote, blob, syncmetadata,
          clock, log, cls, xfer, local0, remote0, blob0, budget, runs, changed, prev,
          app, db, last>>

hist == <<budget, runs, changed, prev>>

Absent == [exists |-> FALSE, mtime |-> 0, content |-> "none"]

File(t, c) == [exists |-> TRUE, mtime |-> t, content |-> c]

EmptyFiles == [k \in MetaKeys |-> NoEntry]

\* Option<SyncMetadata>
None == [some |-> FALSE, files |-> EmptyFiles]

Some(f) == [some |-> TRUE, files |-> f]

\* ------------------------------------------------------- messages, calls
Msg(t, p, s) == [type |-> t, pair |-> p, state |-> s, seg |-> 0]

UpdatePairSyncState(p, s) == Msg("UpdatePairSyncState", p, s)

ShowError(p) == Msg("ShowError", p, "-")

StopSynchronize == Msg("StopSynchronize", 0, "-")

StopSynchronizeCheck == Msg("StopSynchronizeCheck", 0, "-")

\* a call on the client or the local file system, with its result; pair 0 is
\* the root (list) or the metadata blob (get, put); seg is the path segment
\* of a mkcol
Call(t, p, r, k) == [type |-> t, pair |-> p, state |-> r, seg |-> k]

Op(t, p, r) == Call(t, p, r, 0)

MsgTypes == {"UpdatePairSyncState", "ShowError", "StopSynchronize", "StopSynchronizeCheck"}

IsMsg(e) == e.type \in MsgTypes

\* output.send(m): delivered while the receiver exists, an error afterwards
Send(open, m) == IF open THEN <<m>> ELSE <<>>

\* ------------------------------------------------------------ failures
\* number of intermediate directories of the remote path of pair p:
\* "/a.txt" for pair 1, "/d/e/b.txt" for pair 2, "/d/c.txt" for the others
RemoteDepth(p) == IF p = 1 THEN 0 ELSE IF p = 2 THEN 2 ELSE 1

\* what the environment does while a pair is processed: the call that fails
\* (none; a mkcol fails at segment seg) and how many leading directories of
\* the remote path the server already has (dirs)
Fault(c, k, d) == [call |-> c, seg |-> k, dirs |-> d]

NoFault == Fault("none", 0, 0)

\* the same server without a failing call
Plain(fault) == Fault("none", 0, fault.dirs)

\* the calls of the per-pair step that return an error: list_raw and list on
\* the client, upload_file's fs::read and put, download_file's get,
\* response.bytes(), File::create and write_all
FailingCalls == {"list_raw", "list", "read", "put", "get", "body", "create", "write"}

Faults(p) ==
    {Fault(c, 0, d) : c \in {"none"} \cup FailingCalls, d \in 0..RemoteDepth(p)}
        \cup {Fault("mkcol", k, d) : k \in 1..RemoteDepth(p), d \in 0..RemoteDepth(p)}

\* ----------------------------------------------------------- primitives
Cmp(a, b) == IF a > b THEN "Greater" ELSE IF a < b THEN "Less" ELSE "Equal"

is_local_file_exist(p) == local[p].exists

\* the answer of is_remote_file_exist when list_raw returns a response
is_remote_file_exist(p) == remote[p].exists

\* a bug to compare with: the parent directory is not looked at
is_download_possible_always(p) == TRUE

is_download_possible(p) == parent[p]

\* a bug to compare with: the recorded time is ignored
compare_modified_time_live(p, md, fault) ==
    IF fault.call = "list"
    THEN [res |-> "err", ord |-> "Equal", ev |-> <<Op("list", p, "err")>>]
    ELSE [res |-> "ok", ord |-> Cmp(local[p].mtime, remote[p].mtime),
          ev |-> <<Op("list", p, "ok")>>]

\* a bug to compare with: without a recorded time the pair counts as equal
compare_modified_time_no_fallback(p, md, fault) ==
    IF md.some /\ md.files[p] # NoEntry
    THEN [res |-> "ok", ord |-> Cmp(local[p].mtime, md.files[p]), ev |-> <<>>]
    ELSE [res |-> "ok", ord |-> "Equal", ev |-> <<>>]

\* metadata-first comparison; the live remote time only without an entry
compare_modified_time(p, md, fault) ==
    IF md.some /\ md.files[p] # NoEntry
    THEN [res |-> "ok", ord |-> Cmp(local[p].mtime, md.files[p]), ev |-> <<>>]
    ELSE IF fault.call = "list"
    THEN [res |-> "err", ord |-> "Equal", ev |-> <<Op("list", p, "err")>>]
    ELSE [res |-> "ok", ord |-> Cmp(local[p].mtime, remote[p].mtime),
          ev |-> <<Op("list", p, "ok")>>]

\* the response to mkcol_raw of segment k: 405 for a directory the server
\* has (every directory above an existing object, or the leading have ones),
\* 201 for one it makes, "err" for a transport error or any other status
MkcolStatus(p, k, have, failing) ==
    IF failing THEN "err"
    ELSE IF remote[p].exists \/ k <= have THEN "405" ELSE "201"

\* one mkcol per intermediate segment, root first; 201 and 405 go on,
\* anything else ends the loop with an error
ensure_remote_directories(p, depth, fault) ==
    LET failing == fault.call = "mkcol" /\ fault.seg \in 1..depth
        n == IF failing THEN fault.seg ELSE depth
    IN  [res |-> IF failing THEN "err" ELSE "ok",
         ev |-> [k \in 1..n |->
                    Call("mkcol", p, MkcolStatus(p, k, fault.dirs, failing /\ k = n), k)]]

\* a bug to compare with: the directories are made, the content is not put
upload_file_without_put(p, fault) ==
    LET d == ensure_remote_directories(p, RemoteDepth(p), fault)
    IN  IF d.res = "err"
        THEN [res |-> "err", remote |-> remote[p], ev |-> d.ev]
        ELSE [res |-> "ok", remote |-> remote[p], ev |-> d.ev]

\* a bug to compare with: the result of ensure_remote_directories is dropped
upload_file_ignoring_mkcol(p, fault) ==
    LET d == ensure_remote_directories(p, RemoteDepth(p), fault)
    IN  [res |-> "ok", remote |-> File(clock, local[p].content),
         ev |-> d.ev \o <<Op("put", p, "ok")>>]

\* upload_file(local_path, server_path) for pair p
upload_file(p, fault) ==
    LET d == ensure_remote_directories(p, RemoteDepth(p), fault)
    IN  IF d.res = "err"
        THEN [res |-> "err", remote |-> remote[p], ev |-> d.ev]
        ELSE IF fault.call = "read"
        THEN [res |-> "err", remote |-> remote[p],
              ev |-> d.ev \o <<Op("read_local", p, "err")>>]
        ELSE IF fault.call = "put"
        THEN [res |-> "err", remote |-> remote[p],
              ev |-> d.ev \o <<Op("put", p, "err")>>]
        ELSE [res |-> "ok", remote |-> File(clock, local[p].content),
              ev |-> d.ev \o <<Op("put", p, "ok")>>]

\* a bug to compare with: File::create without write_all
download_file_truncates(p, fault) ==
    IF fault.call = "get" \/ ~remote[p].exists
    THEN [res |-> "err", local |-> local[p], ev |-> <<Op("get", p, "err")>>]
    ELSE [res |-> "ok", local |-> File(clock, "none"),
          ev |-> <<Op("get", p, "ok"), Op("write_local", p, "ok")>>]

\* a bug to compare with: File::create comes before the status is looked at
download_file_creates_first(p, fault) ==
    IF fault.call = "get" \/ ~remote[p].exists
    THEN [res |-> "err", local |-> File(clock, "none"),
          ev |-> <<Op("get", p, "err")>>]
    ELSE [res |-> "ok", local |-> File(clock, remote[p].content),
          ev |-> <<Op("get", p, "ok"), Op("write_local", p, "ok")>>]

\* download_file(local_path, server_path) for pair p: the get fails or its
\* status is not a success (404 for an object that is not there); with a
\* success status the body is read, the file created (truncated) and written
download_file(p, fault) ==
    IF fault.call = "get" \/ ~remote[p].exists
    THEN [res |-> "err", local |-> local[p], ev |-> <<Op("get", p, "err")>>]
    ELSE IF fault.call = "body"
    THEN [res |-> "err", local |-> local[p],
          ev |-> <<Op("get", p, "ok"), Op("body", p, "err")>>]
    ELSE IF fault.call = "create"
    THEN [res |-> "err", local |-> local[p],
          ev |-> <<Op("get", p, "ok"), Op("create_local", p, "err")>>]
    ELSE IF fault.call = "write"
    THEN [res |-> "err", local |-> File(clock, "partial"),
          ev |-> <<Op("get", p, "ok"), Op("write_local", p, "err")>>]
    ELSE [res |-> "ok", local |-> File(clock, remote[p].content),
          ev |-> <<Op("get", p, "ok"), Op("write_local", p, "ok")>>]

\* -------------------------------------------------- the per-pair decision
\* what processing one pair gives: the Result (ok, err, panic), the pair's
\* local file and remote object afterwards, the messages delivered and calls
\* made, the classification found and the transfer attempted
Outcome(res, loc, rem, ev, cl, x) ==
    [res |-> res, local |-> loc, remote |-> rem, ev |-> ev, cls |-> cl, xfer |-> x]

\* worker.output.send(UpdatePairSyncState(..)).await?; return Ok(())
SendState(p, st, open, loc, rem, ev, cl, x) ==
    Outcome(IF open THEN "ok" ELSE "err", loc, rem,
            ev \o Send(open, UpdatePairSyncState(p, st)), cl, x)

\* worker.output.send(UpdatePairSyncState(.., CantSynchronize)).await?; Err(..)
SendCant(p, open, ev, cl) ==
    Outcome("err", local[p], remote[p],
            ev \o Send(open, UpdatePairSyncState(p, "CantSynchronize")), cl, "none")

\* a bug to compare with: what was uploaded is fetched back
UploadThenSend_and_back(p, fault, open, ev, cl) ==
    LET u == upload_file(p, fault)
        d == download_file(p, fault)
    IN  IF u.res = "err"
        THEN Outcome("err", local[p], remote[p], ev \o u.ev, cl, "up_fail")
        ELSE SendState(p, "Synchronized", open, d.local, u.remote,
                       ev \o u.ev \o d.ev, cl, "up_ok")

\* upload_file(..).await?; send(Synchronized)
UploadThenSend(p, fault, open, ev, cl) ==
    LET u == upload_file(p, fault)
    IN  IF u.res = "err"
        THEN Outcome("err", local[p], remote[p], ev \o u.ev, cl, "up_fail")
        ELSE SendState(p, "Synchronized", open, local[p], u.remote,
                       ev \o u.ev, cl, "up_ok")

\* download_file(..).await?; send(Synchronized)
DownloadThenSend(p, fault, open, ev, cl) ==
    LET d == download_file(p, fault)
    IN  IF d.res = "err"
        THEN Outcome("err", d.local, remote[p], ev \o d.ev, cl, "down_fail")
        ELSE SendState(p, "Synchronized", open, d.local, remote[p],
                       ev \o d.ev, cl, "down_ok")

synchronize_file(p, md, fault, open) ==
    LET ask == <<Op("list_raw", p, "ok")>>
    IN  IF fault.call = "list_raw"
        THEN \* list_raw(..).await.unwrap() panics
             Outcome("panic", local[p], remote[p], <<Op("list_raw", p, "err")>>,
                     "none", "none")
        ELSE IF is_local_file_exist(p) /\ is_remote_file_exist(p)
        THEN LET c == compare_modified_time(p, md, fault)
             IN  IF c.res = "err"
                 THEN Outcome("err", local[p], remote[p], ask \o c.ev, "none", "none")
                 ELSE IF c.ord = "Greater"
                 THEN UploadThenSend(p, fault, open, ask \o c.ev, "LocalNewer")
                 ELSE IF c.ord = "Less"
                 THEN DownloadThenSend(p, fault, open, ask \o c.ev, "RemoteNewer")
                 ELSE SendState(p, "Synchronized", open, local[p], remote[p],
                                ask \o c.ev, "InSync", "none")
        ELSE IF is_local_file_exist(p) /\ ~is_remote_file_exist(p)
        THEN UploadThenSend(p, fault, open, ask \o ask, "LocalOnly")
        ELSE IF ~is_local_file_exist(p) /\ is_remote_file_exist(p)
        THEN IF is_download_possible(p)
             THEN DownloadThenSend(p, fault, open, ask, "RemoteOnly")
             ELSE SendCant(p, open, ask, "RemoteOnly")
        ELSE SendCant(p, open, ask, "Neither")

\* a bug to compare with: the check makes the transfers
synchronize_file_check_transfers(p, md, fault, open) ==
    synchronize_file(p, md, fault, open)

\* a bug to compare with: the two arms of the match are exchanged
synchronize_file_check_swapped(p, md, fault, open) ==
    LET ask == <<Op("list_raw", p, "ok")>>
    IN  IF fault.call = "list_raw"
        THEN Outcome("panic", local[p], remote[p], <<Op("list_raw", p, "err")>>,
                     "none", "none")
        ELSE IF is_local_file_exist(p) /\ is_remote_file_exist(p)
        THEN LET c == compare_modified_time(p, md, fault)
             IN  IF c.res = "err"
                 THEN Outcome("err", local[p], remote[p], ask \o c.ev, "none", "none")
                 ELSE IF c.ord = "Greater"
                 THEN SendState(p, "UnsynchronizedDevice", open, local[p], remote[p],
                                ask \o c.ev, "LocalNewer", "none")
                 ELSE IF c.ord = "Less"
                 THEN SendState(p, "UnsynchronizedServer", open, local[p], remote[p],
                                ask \o c.ev, "RemoteNewer", "none")
                 ELSE SendState(p, "Synchronized", open, local[p], remote[p],
                                ask \o c.ev, "InSync", "none")
        ELSE IF is_local_file_exist(p) /\ ~is_remote_file_exist(p)
        THEN SendState(p, "UnsynchronizedServer", open, local[p], remote[p],
                       ask \o ask, "LocalOnly", "none")
        ELSE IF ~is_local_file_exist(p) /\ is_remote_file_exist(p)
        THEN IF is_download_possible(p)
             THEN SendState(p, "UnsynchronizedDevice", open, local[p], remote[p],
                            ask, "RemoteOnly", "none")
             ELSE SendCant(p, open, ask, "RemoteOnly")
        ELSE SendCant(p, open, ask, "Neither")

synchronize_file_check(p, md, fault, open) ==
    LET ask == <<Op("list_raw", p, "ok")>>
    IN  IF fault.call = "list_raw"
        THEN Outcome("panic", local[p], remote[p], <<Op("list_raw", p, "err")>>,
                     "none", "none")
        ELSE IF is_local_file_exist(p) /\ is_remote_file_exist(p)
        THEN LET c == compare_modified_time(p, md, fault)
             IN  IF c.res = "err"
                 THEN Outcome("err", local[p], remote[p], ask \o c.ev, "none", "none")
                 ELSE IF c.ord = "Greater"
                 THEN SendState(p, "UnsynchronizedServer", open, local[p], remote[p],
                                ask \o c.ev, "LocalNewer", "none")
                 ELSE IF c.ord = "Less"
                 THEN SendState(p, "UnsynchronizedDevice", open, local[p], remote[p],
                                ask \o c.ev, "RemoteNewer", "none")
                 ELSE SendState(p, "Synchronized", open, local[p], remote[p],
                                ask \o c.ev, "InSync", "none")
        ELSE IF is_local_file_exist(p) /\ ~is_remote_file_exist(p)
        THEN SendState(p, "UnsynchronizedServer", open, local[p], remote[p],
                       ask \o ask, "LocalOnly", "none")
        ELSE IF ~is_local_file_exist(p) /\ is_remote_file_exist(p)
        THEN IF is_download_possible(p)
             THEN SendState(p, "UnsynchronizedDevice", open, local[p], remote[p],
                            ask, "RemoteOnly", "none")
             ELSE SendCant(p, open, ask, "RemoteOnly")
        ELSE SendCant(p, open, ask, "Neither")

\* --------------------------------------------------------- the metadata
LoadFaults == {"ok", "get", "parse"}

\* load_metadata(..).await.ok(): the blob is fetched into a temporary file
\* and parsed; every failure gives None
load_metadata(ld) ==
    IF ld = "get" \/ blob.st = "absent"
    THEN [md |-> None, ev |-> <<Op("get", 0, "err")>>]
    ELSE IF ld = "parse"
    THEN [md |-> None, ev |-> <<Op("get", 0, "ok"), Op("parse", 0, "err")>>]
    ELSE [md |-> Some(blob.files), ev |-> <<Op("get", 0, "ok")>>]

SaveFaults == {"ok", "serialize", "create", "write", "put", "remove"}

\* a bug to compare with: the time of the run is recorded, not the local
\* modification time
refreshed_now(md) ==
    [k \in MetaKeys |->
        IF k \in Pairs /\ local[k].exists THEN clock ELSE md.files[k]]

\* the map save_and_upload_metadata serializes: the loaded one (or the
\* default), with the current local mtime of every pair whose local file
\* can be stat-ed
refreshed(md) ==
    [k \in MetaKeys |->
        IF k \in Pairs /\ local[k].exists THEN local[k].mtime ELSE md.files[k]]

save_and_upload_metadata(md, sv) ==
    IF sv = "serialize"
    THEN \* postcard::to_allocvec fails: skipped, Ok(())
         [res |-> "ok", blob |-> blob, ev |-> <<Op("serialize", 0, "err")>>]
    ELSE IF sv = "create"
    THEN \* File::create fails: skipped, Ok(())
         [res |-> "ok", blob |-> blob, ev |-> <<Op("create_temp", 0, "err")>>]
    ELSE IF sv = "write"
    THEN [res |-> "err", blob |-> blob, ev |-> <<Op("write_temp", 0, "err")>>]
    ELSE IF sv = "put"
    THEN [res |-> "err", blob |-> blob, ev |-> <<Op("put", 0, "err")>>]
    ELSE [res |-> IF sv = "remove" THEN "err" ELSE "ok",
          blob |-> [st |-> "ok", files |-> refreshed(md)],
          ev |-> <<Op("put", 0, "ok")>>]

\* -------------------------------------------------------------- actions
\* a step in which a call fails takes one from the budget
Spend(cost) ==
    /\ cost <= budget
    /\ budget' = budget - cost

StartFaults == {"ok", "build", "probe"}

\* a bug to compare with: a failed probe is reported and the run goes on
Begin_probe_reported_only(m, st, ld, stopBuild, stopProbe) ==
    /\ pc = "idle"
    /\ Spend(IF st # "ok" \/ load_metadata(ld) # load_metadata("ok") THEN 1 ELSE 0)
    /\ runs' = runs + 1
    /\ mode' = m
    /\ local0' = local
    /\ remote0' = remote
    /\ blob0' = blob
    /\ IF st = "build"
       THEN /\ log' = Send(chanOpen, ShowError(0)) \o Send(chanOpen, stopBuild)
            /\ pc' = "done"
            /\ UNCHANGED <<idx, syncmetadata>>
       ELSE LET l == load_metadata(ld)
                probe == IF st = "probe"
                         THEN <<Op("list", 0, "err")>> \o Send(chanOpen, ShowError(0))
                         ELSE <<Op("list", 0, "ok")>>
            IN  /\ log' = probe \o l.ev
                /\ syncmetadata' = l.md
                /\ idx' = 1
                /\ pc' = "pairs"
    /\ UNCHANGED ui
    /\ UNCHANGED <<chanOpen, local, parent, remote, blob, clock, cls, xfer,
                   changed, prev>>

\* the part of run_sync / check_sync before the loop over the pairs
Begin(m, st, ld, stopBuild, stopProbe) ==
    /\ pc = "idle"
    /\ Spend(IF st # "ok" \/ load_metadata(ld) # load_metadata("ok") THEN 1 ELSE 0)
    /\ runs' = runs + 1
    /\ mode' = m
    /\ local0' = local
    /\ remote0' = remote
    /\ blob0' = blob
    /\ IF st = "build"
       THEN /\ log' = Send(chanOpen, ShowError(0)) \o Send(chanOpen, stopBuild)
            /\ pc' = "done"
            /\ UNCHANGED <<idx, syncmetadata>>
       ELSE IF st = "probe"
       THEN /\ log' = <<Op("list", 0, "err")>>
                        \o Send(chanOpen, ShowError(0)) \o Send(chanOpen, stopProbe)
            /\ pc' = "done"
            /\ UNCHANGED <<idx, syncmetadata>>
       ELSE LET l == load_metadata(ld)
            IN  /\ log' = <<Op("list", 0, "ok")>> \o l.ev
                /\ syncmetadata' = l.md
                /\ idx' = 1
                /\ pc' = "pairs"
    /\ UNCHANGED ui
    /\ UNCHANGED <<chanOpen, local, parent, remote, blob, clock, cls, xfer,
                   changed, prev>>

run_sync_begin ==
    \E st \in StartFaults, ld \in LoadFaults :
        Begin("Mutate", st, ld, StopSynchronize, StopSynchronize)

check_sync_begin ==
    \E st \in StartFaults, ld \in LoadFaults :
        Begin("ReportOnly", st, ld, StopSynchronize, StopSynchronizeCheck)

\* a bug to compare with: the snapshot is refreshed after every pair
Iterate_refreshing(o, cost) ==
    /\ Spend(cost)
    /\ local' = [local EXCEPT ![idx] = o.local]
    /\ remote' = [remote EXCEPT ![idx] = o.remote]
    /\ cls' = [cls EXCEPT ![idx] = o.cls]
    /\ xfer' = [xfer EXCEPT ![idx] = o.xfer]
    /\ syncmetadata' = Some(refreshed(syncmetadata))
    /\ IF o.res = "panic"
       THEN /\ log' = log \o o.ev
            /\ pc' = "panicked"
            /\ idx' = idx
       ELSE IF o.res = "ok"
       THEN /\ log' = log \o o.ev
            /\ pc' = "pairs"
            /\ idx' = idx + 1
       ELSE IF chanOpen
       THEN /\ log' = log \o o.ev \o <<ShowError(idx)>>
            /\ pc' = "pairs"
            /\ idx' = idx + 1
       ELSE /\ log' = log \o o.ev
            /\ pc' = "done"
            /\ idx' = idx
    /\ UNCHANGED ui
    /\ UNCHANGED <<mode, chanOpen, parent, blob, clock,
                   local0, remote0, blob0, runs, changed, prev>>

\* one iteration of the loop of synchronize_files / synchronize_files_check,
\* o being what synchronize_file(_check) gave for pair idx; an Err is
\* reported with ShowError, and when that send fails the loop returns Err
\* and the run ends after two more failing sends
Iterate(o, cost) ==
    /\ Spend(cost)
    /\ local' = [local EXCEPT ![idx] = o.local]
    /\ remote' = [remote EXCEPT ![idx] = o.remote]
    /\ cls' = [cls EXCEPT ![idx] = o.cls]
    /\ xfer' = [xfer EXCEPT ![idx] = o.xfer]
    /\ IF o.res = "panic"
       THEN /\ log' = log \o o.ev
            /\ pc' = "panicked"
            /\ idx' = idx
       ELSE IF o.res = "ok"
       THEN /\ log' = log \o o.ev
            /\ pc' = "pairs"
            /\ idx' = idx + 1
       ELSE IF chanOpen
       THEN /\ log' = log \o o.ev \o <<ShowError(idx)>>
            /\ pc' = "pairs"
            /\ idx' = idx + 1
       ELSE /\ log' = log \o o.ev
            /\ pc' = "done"
            /\ idx' = idx
    /\ UNCHANGED ui
    /\ UNCHANGED <<mode, chanOpen, parent, blob, syncmetadata, clock,
                   local0, remote0, blob0, runs, changed, prev>>

\* a bug to compare with: the list is walked from its end
synchronize_files_reversed ==
    /\ pc = "pairs"
    /\ mode = "Mutate"
    /\ idx \in Pairs
    /\ LET q == NumPairs + 1 - idx
       IN  \E fault \in Faults(q) :
               LET o == synchronize_file(q, syncmetadata, fault, chanOpen)
                   plain == synchronize_file(q, syncmetadata, Plain(fault), chanOpen)
               IN  Iterate(o, IF o = plain THEN 0 ELSE 1)

synchronize_files ==
    /\ pc = "pairs"
    /\ mode = "Mutate"
    /\ idx \in Pairs
    /\ \E fault \in Faults(idx) :
           LET o == synchronize_file(idx, syncmetadata, fault, chanOpen)
               plain == synchronize_file(idx, syncmetadata, Plain(fault), chanOpen)
           IN  Iterate(o, IF o = plain THEN 0 ELSE 1)

synchronize_files_check ==
    /\ pc = "pairs"
    /\ mode = "ReportOnly"
    /\ idx \in Pairs
    /\ \E fault \in Faults(idx) :
           LET o == synchronize_file_check(idx, syncmetadata, fault, chanOpen)
               plain == synchronize_file_check(idx, syncmetadata, Plain(fault), chanOpen)
           IN  Iterate(o, IF o = plain THEN 0 ELSE 1)

\* run_sync after the loop: save_and_upload_metadata, then StopSynchronize
run_sync_end ==
    /\ pc = "pairs"
    /\ mode = "Mutate"
    /\ idx = NumPairs + 1
    /\ \E sv \in SaveFaults :
           LET s == save_and_upload_metadata(syncmetadata, sv)
           IN  /\ Spend(IF sv = "ok" THEN 0 ELSE 1)
               /\ blob' = s.blob
               /\ log' = log \o s.ev
                            \o (IF s.res = "err" THEN Send(chanOpen, ShowError(0)) ELSE <<>>)
                            \o Send(chanOpen, StopSynchronize)
    /\ pc' = "done"
    /\ UNCHANGED ui
    /\ UNCHANGED <<mode, idx, chanOpen, local, parent, remote, syncmetadata, clock,
                   cls, xfer, local0, remote0, blob0, runs, changed, prev>>

\* a bug to compare with: the check ends as the synchronization does
check_sync_end_saving ==
    /\ pc = "pairs"
    /\ mode = "ReportOnly"
    /\ idx = NumPairs + 1
    /\ LET s == save_and_upload_metadata(syncmetadata, "ok")
       IN  /\ blob' = s.blob
           /\ log' = log \o s.ev \o Send(chanOpen, StopSynchronizeCheck)
    /\ pc' = "done"
    /\ UNCHANGED ui
    /\ UNCHANGED <<mode, idx, chanOpen, local, parent, remote, syncmetadata, clock,
                   cls, xfer, local0, remote0, blob0, hist>>

\* check_sync after the loop: StopSynchronizeCheck
check_sync_end ==
    /\ pc = "pairs"
    /\ mode = "ReportOnly"
    /\ idx = NumPairs + 1
    /\ log' = log \o Send(chanOpen, StopSynchronizeCheck)
    /\ pc' = "done"
    /\ UNCHANGED ui
    /\ UNCHANGED <<mode, idx, chanOpen, local, parent, remote, blob, syncmetadata,
                   clock, cls, xfer, local0, remote0, blob0, hist>>

\* the consumer drops the receiver while the run is in flight
ConsumerStops ==
    /\ pc = "pairs"
    /\ chanOpen
    /\ chanOpen' = FALSE
    /\ UNCHANGED ui
    /\ UNCHANGED <<pc, mode, idx, local, parent, remote, blob, syncmetadata, clock,
                   log, cls, xfer, local0, remote0, blob0, hist>>

\* ----------------------------------------------------- between two runs
Delivered(m) == \E i \in 1..Len(log) : log[i] = m

NoRun == [mode |-> "none", saved |-> FALSE, synced |-> {}, local |-> local]

\* the host starts another run: a new channel, a later time
NextRun ==
    /\ pc = "done"
    /\ runs < MaxRuns
    /\ pc' = "idle"
    /\ prev' = [mode |-> mode,
                saved |-> Delivered(Op("put", 0, "ok")),
                synced |-> {p \in Pairs :
                              Delivered(UpdatePairSyncState(p, "Synchronized"))},
                local |-> local]
    /\ changed' = FALSE
    /\ chanOpen' = TRUE
    /\ clock' = clock + 1
    /\ log' = <<>>
    /\ idx' = 1
    /\ mode' = "none"
    /\ syncmetadata' = None
    /\ cls' = [p \in Pairs |-> "none"]
    /\ xfer' = [p \in Pairs |-> "none"]
    /\ local0' = local
    /\ remote0' = remote
    /\ blob0' = blob
    /\ UNCHANGED ui
    /\ UNCHANGED <<local, parent, remote, blob, budget, runs>>

\* between two runs the user edits a local file (or puts back an old copy,
\* modification time 0)
EnvLocal ==
    /\ pc = "idle"
    /\ runs > 0
    /\ ~changed
    /\ \E p \in Pairs, t \in {0, clock} :
           /\ parent[p]
           /\ local' = [local EXCEPT ![p] = File(t, "E")]
    /\ changed' = TRUE
    /\ clock' = clock + 1
    /\ UNCHANGED ui
    /\ UNCHANGED <<pc, mode, idx, chanOpen, parent, remote, blob, syncmetadata, log,
                   cls, xfer, local0, remote0, blob0, budget, runs, prev>>

\* between two runs another device replaces a remote object
EnvRemote ==
    /\ pc = "idle"
    /\ runs > 0
    /\ ~changed
    /\ \E p \in Pairs : remote' = [remote EXCEPT ![p] = File(clock, "E")]
    /\ changed' = TRUE
    /\ clock' = clock + 1
    /\ UNCHANGED ui
    /\ UNCHANGED <<pc, mode, idx, chanOpen, local, parent, blob, syncmetadata, log,
                   cls, xfer, local0, remote0, blob0, budget, runs, prev>>

\* -------------------------------------------------- the host (main.rs)
\* the local files the user can name: "a" is the file "/w/a" named relative
\* to the working directory "/w", "ghost" does not exist
LocalKeys == <<"/w/a", "/w/b">>

RawLocal == {"", "a", "/w/a", "ghost"}

\* the remote paths the user can type: "x" and "/x" name the same object,
\* "bad" is not a valid unix path
RawRemote == {"", "x", "/x", "bad"}

\* Path::new(&self.local_path_input).exists()
path_exists(l) == l \in {"a", "/w/a", "/w/b"}

is_valid_unix_path(r) == r # "bad"

\* typed_path::NativePath::new(..).absolutize()
absolutize_local(l) == IF l = "a" THEN "/w/a" ELSE l

\* UnixPath::new(&format!("/{}", ..)).absolutize()
absolutize_remote(r) == IF r = "x" THEN "/x" ELSE r

\* Option<EditingState>
NoEditing == [kind |-> "None", key |-> "", value |-> ""]

Create == [kind |-> "Create", key |-> "", value |-> ""]

Edit(k, v) == [kind |-> "Edit", key |-> k, value |-> v]

Delete(k, v) == [kind |-> "Delete", key |-> k, value |-> v]

\* BiHashMap: a set of (left, right) rows, no left and no right twice
contains_left(m, l) == \E q \in m : q[1] = l

contains_right(m, r) == \E q \in m : q[2] = r

\* BiHashMap::insert overwrites the rows that hold the left or the right
BiInsert(m, l, r) == {q \in m : q[1] # l /\ q[2] # r} \cup {<<l, r>>}

remove_by_left(m, l) == {q \in m : q[1] # l}

\* the right value of left l
RightOf(m, l) == (CHOOSE q \in m : q[1] = l)[2]

\* db::write: table.insert(key, value) replaces the value of the key
write(t, k, v) == {q \in t : q[1] # k} \cup {<<k, v>>}

\* db::delete: table.remove(key)
delete(t, k) == {q \in t : q[1] # k}

RECURSIVE Collect(_, _, _)
\* the rows of the table from the i-th key on, inserted into the BiHashMap m
Collect(t, i, m) ==
    IF i > Len(LocalKeys) THEN m
    ELSE IF contains_left(t, LocalKeys[i])
    THEN Collect(t, i + 1, BiInsert(m, LocalKeys[i], RightOf(t, LocalKeys[i])))
    ELSE Collect(t, i + 1, m)

\* db::read_as_hashmap: the rows in key order, collected into a BiHashMap
read_as_hashmap(t) == Collect(t, 1, {})

AppState_new(t) ==
    [sync_purpose |-> "Check", authorization |-> FALSE,
     local_path_input |-> "", remote_path_input |-> "",
     pairs |-> read_as_hashmap(t), editing |-> NoEditing, error_msgs |-> <<>>]

push_error_msg(s, msg) == [s EXCEPT !.error_msgs = Append(@, msg)]

clear_editing(s) ==
    [s EXCEPT !.local_path_input = "", !.remote_path_input = "",
              !.editing = NoEditing]

\* a bug to compare with: the pair taken out is not put back
decline_editing_discarding(s) == clear_editing(s)

decline_editing(s) ==
    clear_editing(IF s.editing.kind \in {"Edit", "Delete"}
                  THEN [s EXCEPT !.pairs = BiInsert(@, s.editing.key, s.editing.value)]
                  ELSE s)

\* if self.editing.is_some() { self.decline_editing(); }
DeclineIfEditing(s) == IF s.editing.kind # "None" THEN decline_editing(s) ELSE s

\* the identity of the subscription: Subscription::run_with is identified by
\* its data, so the runtime keeps the run while the data is the same, drops
\* it when the data goes and starts a run when new data appears
NoSubscription == [purpose |-> "None", pairs |-> {}]

subscription(s) ==
    IF s.sync_purpose = "None" THEN NoSubscription
    ELSE [purpose |-> s.sync_purpose, pairs |-> s.pairs]

\* what can fail in AcceptEditing and SaveAuth
AcceptFaults == {"ok", "absolutize_local", "absolutize_remote", "db"}

\* Message::AcceptEditing for Create and Edit: the new AppState and table
AcceptPair(s, t, io) ==
    LET l == s.local_path_input
        r == s.remote_path_input
        al == absolutize_local(l)
        ar == absolutize_remote(r)
        sl == [s EXCEPT !.local_path_input = al]
        slr == [sl EXCEPT !.remote_path_input = ar]
    IN  IF l = "" \/ r = ""
        THEN [app |-> push_error_msg(s, "Empty path"), db |-> t]
        ELSE IF ~path_exists(l)
        THEN [app |-> push_error_msg(s, "System path not found"), db |-> t]
        ELSE IF ~is_valid_unix_path(r)
        THEN [app |-> push_error_msg(s, "Server path is invalid"), db |-> t]
        ELSE IF contains_left(s.pairs, l)
        THEN [app |-> push_error_msg(s, "This system path already in use"), db |-> t]
        ELSE IF contains_right(s.pairs, r)
        THEN [app |-> push_error_msg(s, "This server path already in use"), db |-> t]
        ELSE IF io = "absolutize_local"
        THEN [app |-> push_error_msg(s, "Can't absolutize local path"), db |-> t]
        ELSE IF io = "absolutize_remote"
        THEN [app |-> push_error_msg(sl, "Can't absolutize remote path"), db |-> t]
        ELSE IF io = "db"
        THEN [app |-> push_error_msg(slr, "db"), db |-> t]
        ELSE [app |-> clear_editing([slr EXCEPT !.pairs = BiInsert(@, al, ar)]),
              db |-> write(t, al, ar)]

\* Message::AcceptEditing for Delete
AcceptDelete(s, t, io) ==
    IF io = "db"
    THEN [app |-> push_error_msg(s, "db"), db |-> t]
    ELSE [app |-> clear_editing(s), db |-> delete(t, s.editing.key)]

\* the messages that accept or decline an edit
EditMessages ==
    {"AcceptEditing", "DeclineEditing", "CreatePair", "EditPair", "DeletePair", "OpenAuth"}

\* update(message): the new AppState n and the new table t; the history
\* keeps the message, whether a run was active before it, whether the
\* runtime starts a run after it and, for the messages that accept or
\* decline an edit, the AppState before it
Handle(m, n, t) ==
    /\ app' = n
    /\ db' = t
    /\ last' = [msg |-> m,
                app |-> IF m \in EditMessages THEN app ELSE n,
                active |-> app.sync_purpose # "None",
                started |-> /\ subscription(n) # NoSubscription
                            /\ subscription(n) # subscription(app)]
    /\ UNCHANGED engine

\* the text fields are shown while a pair is created or edited
LocalPathInputChanged ==
    /\ app.editing.kind \in {"Create", "Edit"}
    /\ \E input \in RawLocal :
           Handle("LocalPathInputChanged", [app EXCEPT !.local_path_input = input], db)

RemotePathInputChanged ==
    /\ app.editing.kind \in {"Create", "Edit"}
    /\ \E input \in RawRemote :
           Handle("RemotePathInputChanged", [app EXCEPT !.remote_path_input = input], db)

\* the New pair button
CreatePair ==
    \E s \in {DeclineIfEditing(app)} :
        Handle("CreatePair", [s EXCEPT !.editing = Create], db)

\* the Edit and Delete buttons of the pairs shown
EditPair ==
    \E q \in app.pairs :
        LET s == DeclineIfEditing(app)
        IN  Handle("EditPair",
                   IF contains_left(s.pairs, q[1])
                   THEN [s EXCEPT !.pairs = remove_by_left(@, q[1]),
                                  !.local_path_input = q[1],
                                  !.remote_path_input = RightOf(s.pairs, q[1]),
                                  !.editing = Edit(q[1], RightOf(s.pairs, q[1]))]
                   ELSE s, db)

DeletePair ==
    \E q \in app.pairs :
        LET s == DeclineIfEditing(app)
        IN  Handle("DeletePair",
                   IF contains_left(s.pairs, q[1])
                   THEN [s EXCEPT !.pairs = remove_by_left(@, q[1]),
                                  !.editing = Delete(q[1], RightOf(s.pairs, q[1]))]
                   ELSE s, db)

\* the Accept button of the popup
AcceptEditing ==
    /\ app.editing.kind # "None"
    /\ Len(app.error_msgs) < MaxErrors
    /\ \E io \in AcceptFaults :
           LET a == IF app.editing.kind = "Delete"
                    THEN AcceptDelete(app, db, io)
                    ELSE AcceptPair(app, db, io)
           IN  Handle("AcceptEditing", a.app, a.db)

\* the Decline button of the popup
DeclineEditing ==
    /\ app.editing.kind # "None"
    /\ Handle("DeclineEditing", decline_editing(app), db)

\* the buttons shown when no run is active and the authorization is closed
Synchronize ==
    /\ ~app.authorization /\ app.sync_purpose = "None"
    /\ Handle("Synchronize", [app EXCEPT !.sync_purpose = "Synchronize"], db)

SynchronizeCheck ==
    /\ ~app.authorization /\ app.sync_purpose = "None"
    /\ Handle("SynchronizeCheck", [app EXCEPT !.sync_purpose = "Check"], db)

OpenAuth ==
    /\ ~app.authorization /\ app.sync_purpose = "None"
    /\ Handle("OpenAuth", [decline_editing(app) EXCEPT !.authorization = TRUE], db)

\* the Save button of the authorization: three db::write, any may fail
SaveAuth ==
    /\ app.authorization
    /\ Len(app.error_msgs) < MaxErrors
    /\ \E io \in {"ok", "db"} :
           Handle("SaveAuth",
                  IF io = "db" THEN push_error_msg(app, "db")
                  ELSE [app EXCEPT !.authorization = FALSE], db)

\* the Stop button, or the last message of the run
StopSynchronizeMsg ==
    /\ app.sync_purpose # "None"
    /\ Handle("StopSynchronize", [app EXCEPT !.sync_purpose = "None"], db)

\* a diagnostic of the run
ShowErrorMsg ==
    /\ app.sync_purpose # "None"
    /\ Len(app.error_msgs) < MaxErrors
    /\ Handle("ShowError", push_error_msg(app, "run"), db)

CloseError ==
    /\ app.error_msgs # <<>>
    /\ Handle("CloseError", [app EXCEPT !.error_msgs = Tail(@)], db)

\* the application is closed and started again
Restart ==
    \E t \in {db} : Handle("new", AppState_new(t), t)

\* the tables the first start can find: no row, or rows written by accepted
\* edits, with no key and no value twice
Tables ==
    {t \in SUBSET ({LocalKeys[i] : i \in 1..Len(LocalKeys)} \X {"/x", "/y"}) :
        \A q1, q2 \in t : (q1[1] = q2[1] \/ q1[2] = q2[2]) => q1 = q2}

\* the host of a model of the engine alone: started on an empty table
HostIdle ==
    /\ db = {}
    /\ app = AppState_new({})
    /\ last = [msg |-> "new", app |-> app, active |-> FALSE, started |-> TRUE]

\* ------------------------------------------------------------ the worlds
LocalStates == {Absent} \cup {File(t, "L") : t \in Time}

RemoteStates == {Absent} \cup {File(t, "R") : t \in Time}

Entries == {NoEntry} \cup Time

Blobs ==
    {[st |-> "absent", files |-> EmptyFiles]}
        \cup {[st |-> "ok", files |-> f] :
                f \in {g \in [MetaKeys -> Entries] : g[OtherPath] = 0}}

\* what is fixed before the first run
Start ==
    /\ pc = "idle"
    /\ mode = "none"
    /\ idx = 1
    /\ chanOpen = TRUE
    /\ local \in [Pairs -> LocalStates]
    /\ parent \in {f \in [Pairs -> BOOLEAN] : \A p \in Pairs : local[p].exists => f[p]}
    /\ remote \in [Pairs -> RemoteStates]
    /\ blob \in Blobs
    /\ syncmetadata = None
    /\ clock = MaxTime + 1
    /\ log = <<>>
    /\ cls = [p \in Pairs |-> "none"]
    /\ xfer = [p \in Pairs |-> "none"]
    /\ local0 = local
    /\ remote0 = remote
    /\ blob0 = blob
    /\ runs = 0
    /\ changed = FALSE
    /\ prev = NoRun

\* one run, in which any call may fail
Init ==
    /\ Start
    /\ budget = NumPairs + 2
    /\ HostIdle

\* two runs from a remote that holds no metadata blob yet, in which at most
\* MaxFaults calls fail
InitTwo ==
    /\ Start
    /\ blob.st = "absent"
    /\ budget = MaxFaults
    /\ HostIdle

Next ==
    \/ run_sync_begin
    \/ check_sync_begin
    \/ synchronize_files
    \/ synchronize_files_check
    \/ run_sync_end
    \/ check_sync_end
    \/ ConsumerStops

Spec == Init /\ [][Next]_vars

NextTwo ==
    \/ Next
    \/ NextRun
    \/ EnvLocal
    \/ EnvRemote

SpecTwo == InitTwo /\ [][NextTwo]_vars

\* the host alone: the engine is left where it starts, nothing to synchronize
InitUI ==
    /\ Start
    /\ \A p \in Pairs : ~local[p].exists /\ ~parent[p] /\ ~remote[p].exists
    /\ blob.st = "absent"
    /\ budget = 0
    /\ db \in Tables
    /\ app = AppState_new(db)
    /\ last = [msg |-> "new", app |-> app, active |-> FALSE, started |-> TRUE]

NextUI ==
    \/ LocalPathInputChanged
    \/ RemotePathInputChanged
    \/ CreatePair
    \/ EditPair
    \/ DeletePair
    \/ AcceptEditing
    \/ DeclineEditing
    \/ Synchronize
    \/ SynchronizeCheck
    \/ OpenAuth
    \/ SaveAuth
    \/ StopSynchronizeMsg
    \/ ShowErrorMsg
    \/ CloseError
    \/ Restart

SpecUI == InitUI /\ [][NextUI]_vars

\* ------------------------------------------------- reading the history
\* how many messages of type t about pair p were delivered
Count(t, p) ==
    Cardinality({i \in 1..Len(log) : log[i].type = t /\ log[i].pair = p})

\* every outcome delivered for pair p is st
OnlyState(p, st) ==
    \A i \in 1..Len(log) :
        (log[i].type = "UpdatePairSyncState" /\ log[i].pair = p) => log[i].state = st

\* the run got past check_connection
Probed == Delivered(Op("list", 0, "ok"))

Stops == {i \in 1..Len(log) : log[i].type \in {"StopSynchronize", "StopSynchronizeCheck"}}

OwnStop == IF mode = "Mutate" THEN StopSynchronize ELSE StopSynchronizeCheck

\* (* C1 *) In a run that passed the connectivity probe and ended, with the
\* consumer listening to the end, every pair of the list has exactly one
\* UpdatePairSyncState event.
C1_ExactlyOneEvent ==
    (pc = "done" /\ chanOpen /\ Probed)
        => \A p \in Pairs : Count("UpdatePairSyncState", p) = 1

\* (* C2 *) In a Mutate run, once the transfer chosen for a pair has failed
\* (the consumer listening), CantSynchronize has been emitted for the pair
\* with exactly one ShowError, and the loop is past the pair.
C2_FailedTransferIsCantSynchronize ==
    \A p \in Pairs :
        (mode = "Mutate" /\ chanOpen /\ xfer[p] \in {"up_fail", "down_fail"})
            => /\ Delivered(UpdatePairSyncState(p, "CantSynchronize"))
               /\ Count("ShowError", p) = 1
               /\ idx > p

\* (* C3 *) A run that has ended (the consumer listening) has emitted the
\* termination signal of its own mode exactly once, as its last message.
C3_OwnStopOnceAndLast ==
    (pc = "done" /\ chanOpen)
        => /\ Len(log) > 0
           /\ log[Len(log)] = OwnStop
           /\ Cardinality(Stops) = 1

\* (* C4 *) A transport failure of the existence check of a pair stays with
\* the pair: the pair gets CantSynchronize and one diagnostic, and the run
\* is not ended by it.
C4_ExistenceFailureConfined ==
    \A p \in Pairs :
        (chanOpen /\ Delivered(Op("list_raw", p, "err")))
            => /\ Delivered(UpdatePairSyncState(p, "CantSynchronize"))
               /\ Count("ShowError", p) = 1
               /\ pc # "panicked"

\* the calls that change a remote object, a remote directory or a local file
Writes == {"put", "mkcol", "write_local"}

\* (* C5 *) During a ReportOnly run the local file and the remote object of
\* every pair, and the metadata blob, are what they were when the run began,
\* and the run has made no put, no mkcol and no write to a local path.
C5_ReportOnlyChangesNothing ==
    mode = "ReportOnly"
        => /\ local = local0
           /\ remote = remote0
           /\ blob = blob0
           /\ \A i \in 1..Len(log) : log[i].type \notin Writes

\* a finished ReportOnly run that found a newer local file and a remote
\* object to download
C5_Witness ==
    /\ mode = "ReportOnly"
    /\ pc = "done"
    /\ cls[1] = "LocalNewer"
    /\ cls[2] = "RemoteOnly"
    /\ Delivered(UpdatePairSyncState(2, "UnsynchronizedDevice"))

\* (* C6 *) In a Mutate run, for a pair found LocalNewer or with only its
\* local file, once the upload has succeeded the remote object holds the
\* content of the local file, no outcome other than Synchronized is emitted
\* for the pair, and with the consumer listening Synchronized is emitted
\* exactly once.
C6_UploadSynchronizes ==
    \A p \in Pairs :
        (mode = "Mutate" /\ cls[p] \in {"LocalNewer", "LocalOnly"} /\ xfer[p] = "up_ok")
            => /\ remote[p].exists
               /\ local[p].exists
               /\ remote[p].content = local[p].content
               /\ OnlyState(p, "Synchronized")
               /\ chanOpen => Count("UpdatePairSyncState", p) = 1

\* a finished Mutate run that uploaded a newer local file and a local-only file
C6_Witness ==
    /\ mode = "Mutate"
    /\ pc = "done"
    /\ cls[1] = "LocalNewer" /\ xfer[1] = "up_ok"
    /\ cls[2] = "LocalOnly" /\ xfer[2] = "up_ok"
    /\ chanOpen

\* (* C7 *) In a Mutate run, for a pair found RemoteNewer, once the download
\* has succeeded the local file holds the content of the remote object, the
\* remote object is what it was when the run began, no outcome other than
\* Synchronized is emitted for the pair, and with the consumer listening
\* Synchronized is emitted exactly once.
C7_DownloadSynchronizes ==
    \A p \in Pairs :
        (mode = "Mutate" /\ cls[p] = "RemoteNewer" /\ xfer[p] = "down_ok")
            => /\ local[p].exists
               /\ local[p].content = remote[p].content
               /\ remote[p] = remote0[p]
               /\ remote[p].exists
               /\ OnlyState(p, "Synchronized")
               /\ chanOpen => Count("UpdatePairSyncState", p) = 1

\* a finished Mutate run that downloaded both pairs' newer remote objects
C7_Witness ==
    /\ mode = "Mutate"
    /\ pc = "done"
    /\ \A p \in Pairs : cls[p] = "RemoteNewer" /\ xfer[p] = "down_ok"
    /\ chanOpen

\* (* C8 *) as claimed: when a Mutate run is followed at once by a second
\* Mutate run with nothing changed in between (no call failing in either,
\* the first one uploading the metadata blob, the consumer listening), the
\* second run emits Synchronized for every pair and transfers nothing.
C8_SecondRunAllSynchronized ==
    (/\ runs = 2 /\ pc = "done" /\ mode = "Mutate" /\ prev.mode = "Mutate"
     /\ prev.saved /\ ~changed /\ chanOpen /\ budget = MaxFaults)
        => \A p \in Pairs :
              /\ Delivered(UpdatePairSyncState(p, "Synchronized"))
              /\ xfer[p] = "none"

\* (* C8 *) as amended: when a Mutate run that uploaded the metadata blob is
\* followed at once by a Mutate run that loads it, with nothing changed in
\* between, then for every pair the first run emitted Synchronized for, the
\* second run attempts no transfer and emits no other outcome than
\* Synchronized, exactly once when its loop over the pairs has completed.
C8_SecondRunKeepsSynchronized ==
    (/\ runs >= 2 /\ mode = "Mutate" /\ prev.mode = "Mutate" /\ prev.saved
     /\ ~changed /\ syncmetadata.some)
        => \A p \in prev.synced :
              /\ xfer[p] = "none"
              /\ OnlyState(p, "Synchronized")
              /\ (pc = "done" /\ idx > NumPairs)
                    => Count("UpdatePairSyncState", p) = 1

\* a second Mutate run that has finished after a first one had uploaded one
\* pair and downloaded the other
C8_Witness ==
    /\ runs = 2 /\ pc = "done" /\ idx > NumPairs
    /\ mode = "Mutate" /\ prev.mode = "Mutate" /\ prev.saved
    /\ ~changed /\ syncmetadata.some
    /\ prev.synced = Pairs
    /\ remote[1].content = "L"
    /\ local[2].content = "R"
    /\ \A p \in Pairs : Delivered(UpdatePairSyncState(p, "Synchronized"))

\* (* C9 *) At the end of a Mutate run that uploaded the metadata blob, a
\* pair for which Synchronized was not emitted has in the blob the entry (or
\* the absence of one) of the snapshot loaded at the start of the run.
C9_OnlySynchronizedPairsRecorded ==
    (pc = "done" /\ mode = "Mutate" /\ chanOpen /\ Delivered(Op("put", 0, "ok")))
        => \A p \in Pairs :
              ~Delivered(UpdatePairSyncState(p, "Synchronized"))
                  => blob.files[p] = syncmetadata.files[p]

Compared(p) == cls[p] \in {"LocalNewer", "RemoteNewer", "InSync"}

HasEntry(p) == syncmetadata.some /\ syncmetadata.files[p] # NoEntry

ClassOf(ord) ==
    IF ord = "Greater" THEN "LocalNewer"
    ELSE IF ord = "Less" THEN "RemoteNewer" ELSE "InSync"

\* (* C10 *) A pair with both sides present and a timestamp in the snapshot is
\* classified, and by the order of its local modification time and that
\* timestamp alone, with no listing of the remote object; without an entry
\* it is classified by the order of the local and the live remote time.  In
\* a run that loads the blob the preceding Mutate run uploaded, the
\* timestamp of a pair is the local modification time at the end of that run.
C10_RecordedTimeDecides ==
    /\ \A p \in Pairs :
          /\ (idx > p /\ local0[p].exists /\ remote0[p].exists /\ HasEntry(p))
                => Compared(p)
          /\ Compared(p) =>
                IF HasEntry(p)
                THEN /\ cls[p] = ClassOf(Cmp(local0[p].mtime, syncmetadata.files[p]))
                     /\ Count("list", p) = 0
                ELSE /\ cls[p] = ClassOf(Cmp(local0[p].mtime, remote0[p].mtime))
                     /\ Delivered(Op("list", p, "ok"))
    /\ (runs >= 2 /\ prev.mode = "Mutate" /\ prev.saved /\ syncmetadata.some)
          => \A p \in Pairs :
                prev.local[p].exists => syncmetadata.files[p] = prev.local[p].mtime

\* a run after a Mutate run: pair 1 is in sync by the recorded time although
\* the remote object is newer than the local file, pair 2 has no entry and
\* is classified by the live remote time
C10_Witness ==
    /\ runs = 2 /\ prev.mode = "Mutate" /\ prev.saved
    /\ HasEntry(1) /\ cls[1] = "InSync"
    /\ remote0[1].mtime > local0[1].mtime
    /\ ~HasEntry(2) /\ Compared(2)

\* the reference time of pair p: the snapshot's timestamp, or without one
\* the last-modified time the remote object had when the run began
C11_Reference(p) ==
    IF HasEntry(p) THEN syncmetadata.files[p] ELSE remote0[p].mtime

\* the outcome the table of the ReportOnly mode gives for pair p
C11_Expected(p) ==
    IF local0[p].exists /\ remote0[p].exists
    THEN IF local0[p].mtime > C11_Reference(p) THEN "UnsynchronizedServer"
         ELSE IF local0[p].mtime < C11_Reference(p) THEN "UnsynchronizedDevice"
         ELSE "Synchronized"
    ELSE IF local0[p].exists THEN "UnsynchronizedServer"
    ELSE IF remote0[p].exists /\ parent[p] THEN "UnsynchronizedDevice"
    ELSE "CantSynchronize"

\* (* C11 *) In a ReportOnly run every outcome emitted for a pair is the one
\* the table gives for what exists and how the local time compares with the
\* reference time: UnsynchronizedServer for a newer local file or a local
\* file alone, UnsynchronizedDevice for an older local file or a remote
\* object alone under an existing parent directory, Synchronized for equal
\* times, CantSynchronize when neither exists; and with the consumer
\* listening a classified pair has exactly one outcome.
C11_ReportOnlyOutcomeTable ==
    mode = "ReportOnly"
        => \A p \in Pairs :
              /\ OnlyState(p, C11_Expected(p))
              /\ (chanOpen /\ cls[p] # "none") => Count("UpdatePairSyncState", p) = 1

\* a finished ReportOnly run that found an older local file by the recorded
\* time and a pair of which nothing exists
C11_Witness ==
    /\ mode = "ReportOnly" /\ pc = "done" /\ chanOpen
    /\ HasEntry(1) /\ cls[1] = "RemoteNewer"
    /\ Delivered(UpdatePairSyncState(1, "UnsynchronizedDevice"))
    /\ cls[2] = "Neither"
    /\ Delivered(UpdatePairSyncState(2, "CantSynchronize"))

\* (* C12 *) In either mode, once the existence check of a pair has answered
\* for a pair whose local file is absent, whose remote object exists and
\* whose local parent directory does not exist, no outcome other than
\* CantSynchronize is emitted for the pair (exactly one with the consumer
\* listening), no get of the remote object is made, no transfer is recorded
\* and the local file and its parent directory still do not exist.
C12_NoParentCantSynchronize ==
    \A p \in Pairs :
        (/\ mode # "none" /\ Delivered(Op("list_raw", p, "ok"))
         /\ ~local0[p].exists /\ remote0[p].exists /\ ~parent[p])
            => /\ OnlyState(p, "CantSynchronize")
               /\ chanOpen => Count("UpdatePairSyncState", p) = 1
               /\ Count("get", p) = 0
               /\ xfer[p] = "none"
               /\ local[p] = Absent

\* a finished Mutate run whose first pair is a remote object without a local
\* parent directory
C12_Witness ==
    /\ mode = "Mutate" /\ pc = "done" /\ chanOpen
    /\ ~local0[1].exists /\ remote0[1].exists /\ ~parent[1]
    /\ Delivered(UpdatePairSyncState(1, "CantSynchronize"))
    /\ xfer[2] = "down_ok"

\* what a run that fails before the loop may have in its history
C13_FatalLog ==
    {Op("list", 0, "err"), ShowError(0), StopSynchronize, StopSynchronizeCheck}

\* (* C13 *) A run in which the session construction or the connectivity
\* probe failed has ended; it emitted exactly one ShowError (the consumer
\* listening) and besides it only its termination signal; no pair was
\* classified, no outcome emitted, no transfer made, the metadata blob
\* neither fetched nor uploaded, and nothing local or remote changed.
C13_StartFailureIsFatal ==
    (pc # "idle" /\ ~Probed)
        => /\ pc = "done"
           /\ chanOpen => (Count("ShowError", 0) = 1 /\ Cardinality(Stops) = 1)
           /\ \A i \in 1..Len(log) : log[i] \in C13_FatalLog
           /\ \A p \in Pairs : cls[p] = "none" /\ xfer[p] = "none"
           /\ local = local0 /\ remote = remote0 /\ blob = blob0

\* a Mutate run ended by a failed connectivity probe
C13_Witness ==
    /\ mode = "Mutate" /\ pc = "done"
    /\ Delivered(Op("list", 0, "err"))
    /\ Count("ShowError", 0) = 1

\* (* C14 *) In the history of a run, whatever concerns a pair (its existence
\* checks, listing, transfer calls, outcome event and diagnostic) comes
\* before whatever concerns a pair at a later position of the list: the
\* outcome of pair i is emitted before any call for pair j > i is made and
\* before the outcome of pair j.
C14_PairsInOrder ==
    \A a, b \in 1..Len(log) :
        (a < b /\ log[a].pair \in Pairs /\ log[b].pair \in Pairs)
            => log[a].pair <= log[b].pair

\* a finished Mutate run that emitted an outcome for the first pair and then
\* uploaded the second
C14_Witness ==
    /\ mode = "Mutate" /\ pc = "done" /\ chanOpen
    /\ Count("UpdatePairSyncState", 1) = 1
    /\ xfer[2] = "up_ok"
    /\ Count("UpdatePairSyncState", 2) = 1

\* the failures of the end-of-run metadata step, as the history records them
C15_SaveFailures ==
    {Op("serialize", 0, "err"), Op("create_temp", 0, "err"),
     Op("write_temp", 0, "err"), Op("put", 0, "err")}

\* (* C15 *) In a finished Mutate run (the consumer listening) in which the
\* end-of-run metadata step failed (serialization, creating or writing the
\* temporary file, or the upload), a ShowError follows the failure and
\* precedes the termination signal, and no UpdatePairSyncState follows it.
C15_MetadataFailureReported ==
    (pc = "done" /\ mode = "Mutate" /\ chanOpen)
        => \A i \in 1..Len(log) :
              log[i] \in C15_SaveFailures
                  => /\ \E j, k \in 1..Len(log) :
                          /\ i < j /\ j < k
                          /\ log[j] = ShowError(0)
                          /\ log[k] = StopSynchronize
                     /\ \A j \in 1..Len(log) :
                          j > i => log[j].type # "UpdatePairSyncState"

\* the download or the parsing of the prior metadata blob failed
C16_LoadFailed == Delivered(Op("get", 0, "err")) \/ Delivered(Op("parse", 0, "err"))

\* the classification by the live last-modified time of the remote object
C16_LiveClass(p) ==
    IF local0[p].mtime > remote0[p].mtime THEN "LocalNewer"
    ELSE IF local0[p].mtime < remote0[p].mtime THEN "RemoteNewer" ELSE "InSync"

\* (* C16 *) In a run in which downloading or parsing the prior metadata blob
\* failed, the snapshot is empty, no diagnostic has been emitted while the
\* pairs are processed, the run does not end before the last pair (the
\* consumer listening), and every pair processed with both sides present
\* has had the remote object listed once and, when the listing answered,
\* is classified by the order of the local and the live remote time.
C16_LoadFailureSwallowed ==
    C16_LoadFailed
        => /\ ~syncmetadata.some
           /\ pc = "pairs" => Count("ShowError", 0) = 0
           /\ (pc = "done" /\ chanOpen) => idx > NumPairs
           /\ \A p \in Pairs :
                 (/\ Delivered(Op("list_raw", p, "ok"))
                  /\ local0[p].exists /\ remote0[p].exists)
                     => /\ Count("list", p) = 1
                        /\ Delivered(Op("list", p, "ok")) => cls[p] = C16_LiveClass(p)
                        /\ cls[p] # "none" => Delivered(Op("list", p, "ok"))

\* a finished run that could not parse a blob holding a timestamp for pair 1
\* equal to its local time, and found pair 1 newer than the remote object
C16_Witness ==
    /\ pc = "done" /\ chanOpen
    /\ Delivered(Op("parse", 0, "err"))
    /\ blob0.st = "ok" /\ blob0.files[1] = local0[1].mtime
    /\ local0[1].exists /\ remote0[1].exists
    /\ cls[1] = "LocalNewer"

\* the puts of the metadata blob
C17_BlobPuts == {i \in 1..Len(log) : log[i].type = "put" /\ log[i].pair = 0}

\* (* C17 *) The metadata blob is put at most once in a run, never in a
\* ReportOnly run and never before the loop over the pairs has ended: every
\* call and message of a pair precedes the put, and the blob is what it was
\* when the run began unless the put succeeded.
C17_BlobWrittenOnlyAtEnd ==
    /\ Cardinality(C17_BlobPuts) <= 1
    /\ mode = "ReportOnly" => C17_BlobPuts = {}
    /\ pc # "done" => C17_BlobPuts = {}
    /\ \A a \in C17_BlobPuts :
          /\ mode = "Mutate" /\ idx > NumPairs
          /\ \A b \in 1..Len(log) : log[b].pair \in Pairs => b < a
    /\ blob # blob0 => Delivered(Op("put", 0, "ok"))

\* a finished Mutate run that uploaded a file of the second pair and then
\* the metadata blob, changing it
C17_Witness ==
    /\ mode = "Mutate" /\ pc = "done"
    /\ xfer[2] = "up_ok"
    /\ Delivered(Op("put", 0, "ok"))
    /\ blob # blob0

\* the steps of save_and_upload_metadata the history records
C18_SaveSteps == {"serialize", "create_temp", "write_temp", "put"}

\* (* C18 *) A Mutate run that passed the probe and ended after the consumer
\* had stopped listening has performed the end-of-run metadata step: its
\* history holds the upload of the metadata blob or the failure of that step.
C18_ClosedChannelStillSaves ==
    (mode = "Mutate" /\ pc = "done" /\ ~chanOpen /\ Probed)
        => \E i \in 1..Len(log) : log[i].pair = 0 /\ log[i].type \in C18_SaveSteps

\* the mkcol calls made for pair p, in order
C19_Mkcols(p) == SelectSeq(log, LAMBDA e : e.type = "mkcol" /\ e.pair = p)

\* (* C19 *) For a pair whose upload was attempted, the mkcol calls are for
\* the segments 1, 2, .. of the remote path in this order and all precede
\* the put; every call but the last answered 201 or 405; when the last one
\* failed, the upload failed, the file was not read and no put was made;
\* otherwise there is one mkcol per intermediate segment, followed by the
\* read of the file and (unless that failed) one put.
C19_MkcolParentToChild ==
    \A p \in Pairs :
        xfer[p] \in {"up_ok", "up_fail"}
            => LET m == C19_Mkcols(p)
               IN  /\ \A k \in 1..Len(m) : m[k].seg = k
                   /\ \A k \in 1..(Len(m) - 1) : m[k].state \in {"201", "405"}
                   /\ \A a, b \in 1..Len(log) :
                         (/\ log[a].type = "mkcol" /\ log[a].pair = p
                          /\ log[b].type = "put" /\ log[b].pair = p) => a < b
                   /\ IF Len(m) > 0 /\ m[Len(m)].state = "err"
                      THEN /\ xfer[p] = "up_fail"
                           /\ Count("put", p) = 0
                           /\ Count("read_local", p) = 0
                      ELSE /\ Len(m) = RemoteDepth(p)
                           /\ Count("put", p) + Count("read_local", p) = 1

\* an upload of the second pair whose first directory was already there and
\* whose second was made
C19_Witness ==
    /\ xfer[2] = "up_ok"
    /\ C19_Mkcols(2) = <<Call("mkcol", 2, "405", 1), Call("mkcol", 2, "201", 2)>>
    /\ Delivered(Op("put", 2, "ok"))

\* (* C20 *) as claimed: when the get of a pair's remote object failed (or
\* its status was not a success) the download failed and the local file is
\* what it was; when the get answered with a success status the local file
\* exists and holds exactly the content of the remote object.
C20_DownloadAllOrNothing ==
    \A p \in Pairs :
        /\ Delivered(Op("get", p, "err"))
              => (xfer[p] = "down_fail" /\ local[p] = local0[p])
        /\ Delivered(Op("get", p, "ok"))
              => (local[p].exists /\ local[p].content = remote0[p].content)

\* the local steps of download_file after a success status that failed
C20_LocalFailures(p) ==
    {e \in {Op("body", p, "err"), Op("create_local", p, "err"),
            Op("write_local", p, "err")} : Delivered(e)}

\* (* C20 *) as amended: when the get failed (or its status was not a
\* success) the download failed and the local file is what it was; after a
\* success status, when reading the body, creating the file and writing it
\* all succeeded, the download succeeded and the local file holds exactly
\* the content of the remote object; when one of them failed the download
\* failed, and the local file is what it was unless it was the write.
C20_DownloadWritesBodyOrFails ==
    \A p \in Pairs :
        /\ Delivered(Op("get", p, "err"))
              => (xfer[p] = "down_fail" /\ local[p] = local0[p])
        /\ (Delivered(Op("get", p, "ok")) /\ C20_LocalFailures(p) = {})
              => /\ xfer[p] = "down_ok"
                 /\ local[p].exists
                 /\ local[p].content = remote0[p].content
        /\ C20_LocalFailures(p) # {}
              => /\ xfer[p] = "down_fail"
                 /\ Delivered(Op("write_local", p, "err")) \/ local[p] = local0[p]

\* a run that downloaded the first pair's object and whose get of the
\* second pair's object failed
C20_Witness ==
    /\ xfer[1] = "down_ok" /\ local[1].content = "R"
    /\ xfer[2] = "down_fail" /\ Delivered(Op("get", 2, "err"))
    /\ local[2] = local0[2]

\* the snapshot of a run: what the blob held when the run began, or nothing
\* when it could not be downloaded and parsed
C21_Snapshot == IF C16_LoadFailed THEN None ELSE Some(blob0.files)

\* the reference time of pair p by that snapshot
C21_Reference(p) ==
    IF C21_Snapshot.some /\ C21_Snapshot.files[p] # NoEntry
    THEN C21_Snapshot.files[p]
    ELSE remote0[p].mtime

\* (* C21 *) From the load before the first pair to the end of the run the
\* snapshot is the one loaded from the blob the run found (or none when the
\* load failed): every pair compared is classified by the order of its local
\* time at run start and the reference time that snapshot and the remote
\* object at run start give, and the pairs not yet processed have the
\* remote object they had at run start, whatever was transferred before.
C21_OneSnapshotPerRun ==
    Probed
        => /\ syncmetadata = C21_Snapshot
           /\ \A p \in Pairs :
                 /\ Compared(p)
                       => cls[p] = ClassOf(Cmp(local0[p].mtime, C21_Reference(p)))
                 /\ (pc = "pairs" /\ p >= idx) => remote[p] = remote0[p]

\* a run that uploaded the first pair and then compared the second, which
\* has no entry in the loaded snapshot, with the live remote time
C21_Witness ==
    /\ mode = "Mutate" /\ syncmetadata.some
    /\ xfer[1] = "up_ok"
    /\ syncmetadata.files[2] = NoEntry
    /\ cls[2] = "RemoteNewer"

\* (* C24 *) In a Mutate run that uploaded the metadata blob, the entry of a
\* remote path that is not in the pair list has in the uploaded blob the
\* timestamp it had in the blob at run start.
C24_OtherEntriesKept ==
    (mode = "Mutate" /\ Delivered(Op("put", 0, "ok")))
        => blob.files[OtherPath] = blob0.files[OtherPath]

\* the calls of an upload and of a download of pair p in the history
C25_UploadCalls(p) ==
    {i \in 1..Len(log) : log[i].pair = p /\ log[i].type \in {"mkcol", "read_local", "put"}}

C25_DownloadCalls(p) ==
    {i \in 1..Len(log) :
        log[i].pair = p /\ log[i].type \in {"get", "body", "create_local", "write_local"}}

\* (* C25 *) In a Mutate run no pair has both calls of an upload and calls
\* of a download, none has more than one put or more than one get, and a
\* pair has no call of either when at run start both sides existed with the
\* local time equal to the reference time, when neither side existed, or
\* when only the remote object existed and the local parent directory did
\* not; such a pair has the files it had.
C25_AtMostOneTransfer ==
    (mode = "Mutate" /\ Probed)
        => \A p \in Pairs :
              /\ C25_UploadCalls(p) = {} \/ C25_DownloadCalls(p) = {}
              /\ Count("put", p) <= 1
              /\ Count("get", p) <= 1
              /\ (\/ /\ local0[p].exists /\ remote0[p].exists
                     /\ local0[p].mtime = C21_Reference(p)
                  \/ ~local0[p].exists /\ ~remote0[p].exists
                  \/ ~local0[p].exists /\ remote0[p].exists /\ ~parent[p])
                    => /\ C25_UploadCalls(p) = {} /\ C25_DownloadCalls(p) = {}
                       /\ xfer[p] = "none"
                       /\ local[p] = local0[p] /\ remote[p] = remote0[p]

\* a finished Mutate run that uploaded the first pair, with one put and no
\* get, and left alone the second, found equal to the recorded time
C25_Witness ==
    /\ mode = "Mutate" /\ pc = "done" /\ idx > NumPairs
    /\ Count("put", 1) = 1 /\ Count("get", 1) = 0 /\ xfer[1] = "up_ok"
    /\ cls[2] = "InSync" /\ HasEntry(2)
    /\ remote0[2].mtime # local0[2].mtime

\* the pair list handed to a run holds no local and no remote path twice
C22_Unique(m) == \A q1, q2 \in m : (q1[1] = q2[1] \/ q1[2] = q2[2]) => q1 = q2

\* the last message accepted a created or edited pair whose stored local or
\* remote path was used by another pair
C22_StoredFormInUse ==
    /\ last.msg = "AcceptEditing"
    /\ last.app.editing.kind \in {"Create", "Edit"}
    /\ \/ contains_left(last.app.pairs, absolutize_local(last.app.local_path_input))
       \/ contains_right(last.app.pairs, absolutize_remote(last.app.remote_path_input))

\* (* C22 *) The pair set holds no local path and no remote path twice, and
\* an AcceptEditing of a created or edited pair whose absolutized local or
\* remote path is used by another pair adds an error message and leaves the
\* pair set as it was.
C22_UniqueAndCollisionRejected ==
    /\ C22_Unique(app.pairs)
    /\ C22_StoredFormInUse
          => /\ Len(app.error_msgs) = Len(last.app.error_msgs) + 1
             /\ app.pairs = last.app.pairs

\* (* C23 *) No Synchronize or SynchronizeCheck message is handled while a
\* run is active, and after the start of the application the runtime starts
\* a run only on a message handled in the idle state.
C23_OneRunAtATime ==
    /\ last.msg \in {"Synchronize", "SynchronizeCheck"} => ~last.active
    /\ (last.started /\ last.msg # "new") => ~last.active

\* the pairs of AppState s, the one taken out for an edit or a delete included
C26_AllPairs(s) ==
    s.pairs \cup (IF s.editing.kind \in {"Edit", "Delete"}
                  THEN {<<s.editing.key, s.editing.value>>} ELSE {})

\* (* C26 *) After a DeclineEditing, CreatePair, EditPair, DeletePair or
\* OpenAuth message handled while a pair was taken out for an edit or a
\* delete, that pair is in the pair set again and the pairs (the one the
\* message itself took out included) are those there were before the
\* message; after the three messages that take no pair out the pair set is
\* exactly the former one with the pair put back.
C26_DeclineRestoresPairs ==
    (/\ last.msg \in {"DeclineEditing", "CreatePair", "EditPair", "DeletePair", "OpenAuth"}
     /\ last.app.editing.kind \in {"Edit", "Delete"})
        => /\ <<last.app.editing.key, last.app.editing.value>> \in app.pairs
           /\ C26_AllPairs(app) = C26_AllPairs(last.app)
           /\ C22_Unique(C26_AllPairs(app))
           /\ last.msg \in {"DeclineEditing", "CreatePair", "OpenAuth"}
                 => app.pairs = C26_AllPairs(last.app)

\* the delete of one pair declined by the Edit button of another, with two
\* pairs in the list
C26_Witness ==
    /\ last.msg = "EditPair"
    /\ last.app.editing.kind = "Delete"
    /\ app.editing.kind = "Edit"
    /\ last.app.pairs # {}
    /\ Cardinality(C26_AllPairs(app)) = 2

\* (* C27 *) Whenever no editing is in progress the persisted pairs table
\* holds exactly the pairs of the in-memory pair set.
C27_TableEqualsPairs ==
    app.editing.kind = "None" => db = app.pairs

====
